---- MODULE Spec2Model ----
(***************************************************************************)
(* A model of typhoon: the bencoding decoder (typhoon/src/bencoding.rs)    *)
(* and the torrent metadata extractor (typhoon/src/core.rs).               *)
(*                                                                         *)
(* Bytes are modelled as one-character strings.  i64 and usize are scaled  *)
(* down to IntBits bits; arithmetic keeps that width.  Integer overflow    *)
(* depends on the build profile: with overflow checks (debug) it panics,   *)
(* without them (release) it wraps.  Both builds are modelled.             *)
(***************************************************************************)
EXTENDS Integers, Sequences, FiniteSets, TLC

VARIABLES overflow_checks, pc, input, parsed, bencoding, torrent, string, tracker,
          lexer, stack, ret, iterations, command, stdout, exit_status

\* the decoder while it runs: the Lexer, the call stack of the recursive
\* descent, the result of the call that returned last, and the number of
\* iterations the list and dict loops have gone on to
step_vars == <<lexer, stack, ret, iterations>>

\* the command-line process: its arguments, what it printed, its exit status
main_vars == <<command, stdout, exit_status>>

vars == <<overflow_checks, pc, input, parsed, bencoding, torrent, string, tracker,
          lexer, stack, ret, iterations, command, stdout, exit_status>>

(* ------------------------------ bounds -------------------------------- *)

\* width in bits of the scaled-down i64 / usize
IntBits == 5

\* longest input handed to Bencoding::parse
MaxLen == 5

(* --------------------------- machine integers ------------------------- *)

RECURSIVE Pow2(_)
Pow2(n) == IF n = 0 THEN 1 ELSE 2 * Pow2(n - 1)

I64_MAX == Pow2(IntBits - 1) - 1

I64_MIN == 0 - Pow2(IntBits - 1)

USIZE_MAX == Pow2(IntBits) - 1

\* two's complement wrap-around of a signed result
wrap_i64(x) == ((x - I64_MIN) % Pow2(IntBits)) + I64_MIN

\* `as usize` on an i64, and wrap-around of an unsigned result
wrap_usize(x) == x % Pow2(IntBits)

i64_overflows(x) == x < I64_MIN \/ x > I64_MAX

(* ------------------------------ results ------------------------------- *)

Ok(v, lx) == [st |-> "Ok", val |-> v, lx |-> lx]

Err(msg, lx) == [st |-> "Err", val |-> msg, lx |-> lx]

Panic(msg, lx) == [st |-> "Panic", val |-> msg, lx |-> lx]

Bencoding_Int(i) == [tag |-> "Int", int |-> i]

Bencoding_ByteString(bytes) == [tag |-> "ByteString", bytes |-> bytes]

Bencoding_List(items) == [tag |-> "List", items |-> items]

Bencoding_Dict(map) == [tag |-> "Dict", map |-> map]

\* HashMap::new and HashMap::insert (the last write for a key wins)
HashMap_new == [k \in {} |-> 0]

HashMap_insert(map, key, item) ==
    [k \in DOMAIN map \cup {key} |-> IF k = key THEN item ELSE map[k]]

(* ------------------------------- lexer -------------------------------- *)

\* Option::None of peek; never a byte
None == "None"

Digits == <<"0", "1", "2", "3", "4", "5", "6", "7", "8", "9">>

as_digit(chr) ==
    IF \E d \in 1..10 : Digits[d] = chr
    THEN [some |-> TRUE, v |-> (CHOOSE d \in 1..10 : Digits[d] = chr) - 1]
    ELSE [some |-> FALSE, v |-> 0]

Lexer_new(in) == [input |-> in, pos |-> 0]

\* next that leaves the position where it is
Lexer_next_stuck(lx) == lx

Lexer_next(lx) == [lx EXCEPT !.pos = @ + 1]

Lexer_peek(lx) == IF lx.pos < Len(lx.input) THEN lx.input[lx.pos + 1] ELSE None

Lexer_take(lx, count) ==
    LET sum == lx.pos + count
        top == wrap_usize(sum)
    IN  IF sum > USIZE_MAX /\ overflow_checks
        THEN Panic("attempt to add with overflow", lx)
        ELSE IF top > Len(lx.input)
        THEN Err(None, lx)
        ELSE IF top < lx.pos
        THEN Panic("slice index starts after its end", lx)
        ELSE Ok(SubSeq(lx.input, lx.pos + 1, top), [lx EXCEPT !.pos = top])

\* expect that consumes a byte whether it matched or not
Lexer_expect_consuming(lx, target) ==
    IF Lexer_peek(lx) = target
    THEN Ok(target, Lexer_next(lx))
    ELSE IF Lexer_peek(lx) # None
    THEN Err("Expected byte but found another", Lexer_next(lx))
    ELSE Err("Expected byte but reached the end of input", Lexer_next(lx))

Lexer_expect(lx, target) ==
    IF Lexer_peek(lx) = target
    THEN Ok(target, Lexer_next(lx))
    ELSE IF Lexer_peek(lx) # None
    THEN Err("Expected byte but found another", lx)
    ELSE Err("Expected byte but reached the end of input", lx)

(* ------------------------------ decoder ------------------------------- *)

RECURSIVE int_digits_loop(_, _)
int_digits_loop(lx, acc) ==
    LET chr == Lexer_peek(lx)
        digit == as_digit(chr)
        prod == 10 * acc
        sum == wrap_i64(prod) + digit.v
    IN  IF chr = None \/ ~digit.some
        THEN Ok(acc, lx)
        ELSE IF overflow_checks /\ (i64_overflows(prod) \/ i64_overflows(sum))
        THEN Panic("attempt to multiply or add with overflow", Lexer_next(lx))
        ELSE int_digits_loop(Lexer_next(lx), wrap_i64(sum))

int_digits(lx) ==
    LET head == Lexer_peek(lx)
    IN  IF head = None
        THEN Err("Tried to parse integer from empty input", lx)
        ELSE IF ~as_digit(head).some
        THEN Err("Tried to parse integer without any valid digits", lx)
        ELSE int_digits_loop(Lexer_next(lx), as_digit(head).v)

int(lx) ==
    LET minus == Lexer_peek(lx) = "-"
        negate == IF minus THEN 0 - 1 ELSE 1
        digits == int_digits(IF minus THEN Lexer_next(lx) ELSE lx)
        e == Lexer_expect(digits.lx, "e")
    IN  IF digits.st # "Ok"
        THEN digits
        ELSE IF e.st # "Ok"
        THEN e
        ELSE IF overflow_checks /\ i64_overflows(negate * digits.val)
        THEN Panic("attempt to multiply with overflow", e.lx)
        ELSE Ok(Bencoding_Int(wrap_i64(negate * digits.val)), e.lx)

bytestring(lx) ==
    LET digits == int_digits(lx)
        colon == Lexer_expect(digits.lx, ":")
        count == wrap_usize(digits.val)
        slice == Lexer_take(colon.lx, count)
    IN  IF digits.st # "Ok"
        THEN digits
        ELSE IF colon.st # "Ok"
        THEN colon
        ELSE IF slice.st = "Err"
        THEN Err("Unable to take bytes from input", slice.lx)
        ELSE slice

RECURSIVE root(_), list_loop(_, _), dict_loop(_, _)

list_loop(lx, inner) ==
    LET item == root(lx)
        e == Lexer_expect(item.lx, "e")
    IN  IF item.st = "Ok"
        THEN list_loop(item.lx, Append(inner, item.val))
        ELSE IF item.st = "Panic"
        THEN item
        ELSE IF e.st # "Ok"
        THEN e
        ELSE Ok(Bencoding_List(inner), e.lx)

list(lx) == list_loop(lx, <<>>)

dict_loop(lx, inner) ==
    LET key == bytestring(lx)
        item == root(key.lx)
        e == Lexer_expect(key.lx, "e")
    IN  IF key.st = "Ok"
        THEN IF item.st # "Ok"
             THEN item
             ELSE dict_loop(item.lx, HashMap_insert(inner, key.val, item.val))
        ELSE IF key.st = "Panic"
        THEN key
        ELSE IF e.st # "Ok"
        THEN e
        ELSE Ok(Bencoding_Dict(inner), e.lx)

dict(lx) == dict_loop(lx, HashMap_new)

root(lx) ==
    LET c == Lexer_peek(lx)
        bytes == bytestring(lx)
    IN  IF c = None
        THEN Err("Tried to parse bencoded data from empty input", lx)
        ELSE IF c = "i"
        THEN int(Lexer_next(lx))
        ELSE IF c = "l"
        THEN list(Lexer_next(lx))
        ELSE IF c = "d"
        THEN dict(Lexer_next(lx))
        ELSE IF as_digit(c).some
        THEN IF bytes.st = "Ok" THEN Ok(Bencoding_ByteString(bytes.val), bytes.lx) ELSE bytes
        ELSE Err("Unknown type of element", lx)

\* Bencoding::parse: the outcome without the lexer
parse(in) ==
    LET r == root(Lexer_new(in))
    IN  [st |-> r.st, val |-> r.val]

(* ----------------------- extraction helpers (core.rs) ------------------ *)

ROk(v) == [st |-> "Ok", val |-> v]

RErr(e) == [st |-> "Err", val |-> e]

\* str::as_bytes on the keys the extractor looks up
as_bytes(key) ==
    CASE key = "announce-list" -> <<"a", "n", "n", "o", "u", "n", "c", "e", "-", "l", "i", "s", "t">>
      [] key = "announce" -> <<"a", "n", "n", "o", "u", "n", "c", "e">>
      [] key = "creation date" -> <<"c", "r", "e", "a", "t", "i", "o", "n", " ", "d", "a", "t", "e">>
      [] key = "comment" -> <<"c", "o", "m", "m", "e", "n", "t">>
      [] key = "created by" -> <<"c", "r", "e", "a", "t", "e", "d", " ", "b", "y">>
      [] key = "info" -> <<"i", "n", "f", "o">>
      [] key = "private" -> <<"p", "r", "i", "v", "a", "t", "e">>
      [] key = "piece length" -> <<"p", "i", "e", "c", "e", " ", "l", "e", "n", "g", "t", "h">>
      [] key = "pieces" -> <<"p", "i", "e", "c", "e", "s">>
      [] key = "files" -> <<"f", "i", "l", "e", "s">>
      [] key = "name" -> <<"n", "a", "m", "e">>
      [] key = "length" -> <<"l", "e", "n", "g", "t", "h">>
      [] key = "path" -> <<"p", "a", "t", "h">>

\* a byte that never occurs in valid UTF-8
INVALID_UTF8 == "\\xff"

\* str::from_utf8: the text of the bytes, or an error
from_utf8(bytes) ==
    IF \E k \in 1..Len(bytes) : bytes[k] = INVALID_UTF8
    THEN RErr("Utf8Error")
    ELSE ROk(bytes)

extract_int(b) ==
    IF b.tag = "Int" THEN ROk(b.int) ELSE RErr(<<"ExpectedInt", b>>)

extract_bytes(b) ==
    IF b.tag = "ByteString" THEN ROk(b.bytes) ELSE RErr(<<"ExpectedByteString", b>>)

extract_string(b) ==
    LET bytes == extract_bytes(b)
    IN  IF bytes.st = "Err"
        THEN bytes
        ELSE IF from_utf8(bytes.val).st = "Err"
        THEN RErr(<<"NotUTF8", b>>)
        ELSE from_utf8(bytes.val)

extract_key(b, key) ==
    IF b.tag = "Dict"
    THEN IF as_bytes(key) \in DOMAIN b.map
         THEN ROk(b.map[as_bytes(key)])
         ELSE RErr(<<"MissingKey", b, key>>)
    ELSE RErr(<<"ExpectedDict", b>>)

extract_list(b) ==
    IF b.tag = "List" THEN ROk(b.items) ELSE RErr(<<"ExpectedList", b>>)

\* SystemTime is modelled as whole seconds since UNIX_EPOCH, held in an i64
extract_system_time(b) ==
    LET seconds == extract_int(b)
        from_beginning == wrap_usize(seconds.val)
    IN  IF seconds.st = "Err"
        THEN seconds
        ELSE IF from_beginning > I64_MAX
        THEN RErr(<<"ExceedsSystemTime", seconds.val>>)
        ELSE ROk(from_beginning)

(* ----------------------------- TrackerAddr ----------------------------- *)

starts_with(s, prefix) ==
    Len(s) >= Len(prefix) /\ SubSeq(s, 1, Len(prefix)) = prefix

\* the 1-based index of the first occurrence of pat in s, 0 when there is none
str_find(s, pat) ==
    LET hits == {k \in 1..(Len(s) - Len(pat) + 1) : SubSeq(s, k, k + Len(pat) - 1) = pat}
    IN  IF hits = {} THEN 0 ELSE CHOOSE k \in hits : \A j \in hits : k <= j

\* str::splitn(2, pat): at most two pieces, split at the first occurrence
splitn2(s, pat) ==
    LET at == str_find(s, pat)
    IN  IF at = 0
        THEN <<s>>
        ELSE <<SubSeq(s, 1, at - 1), SubSeq(s, at + Len(pat), Len(s))>>

UDP_SCHEME == <<"u", "d", "p", ":", "/", "/">>

HTTP_SCHEME == <<"h", "t", "t", "p", ":", "/", "/">>

HTTPS_SCHEME == <<"h", "t", "t", "p", "s", ":", "/", "/">>

\* TrackerAddr::from with the HTTP test ahead of the UDP test
TrackerAddr_from_http_first(s) ==
    LET pieces == splitn2(s, UDP_SCHEME)
    IN  IF starts_with(s, HTTP_SCHEME) \/ starts_with(s, HTTPS_SCHEME)
        THEN [tag |-> "HTTP", v |-> s]
        ELSE IF Len(pieces) > 1
        THEN [tag |-> "UDP", v |-> pieces[2]]
        ELSE [tag |-> "Unknown", v |-> s]

TrackerAddr_from(s) ==
    LET pieces == splitn2(s, UDP_SCHEME)
    IN  IF Len(pieces) > 1
        THEN [tag |-> "UDP", v |-> pieces[2]]
        ELSE IF starts_with(s, HTTP_SCHEME) \/ starts_with(s, HTTPS_SCHEME)
        THEN [tag |-> "HTTP", v |-> s]
        ELSE [tag |-> "Unknown", v |-> s]

TrackerAddr_try_from(b) ==
    LET text == extract_string(b)
    IN  IF text.st = "Err" THEN text ELSE ROk(TrackerAddr_from(text.val))

(* ------------------------------- Torrent ------------------------------- *)

PIECE_HASH_SIZE == 20

\* width in bits of the scaled-down u8 tracker priority
U8Bits == 2

\* `as u8` on a usize
as_u8(index) == index % Pow2(U8Bits)

BencodingError(e) == RErr(<<"Bencoding", e>>)

\* the inner loop of extract_trackers over one tier; k is 1-based
RECURSIVE tier_loop(_, _, _, _)
tier_loop(tier_list, k, index, trackers) ==
    LET addr == TrackerAddr_try_from(tier_list[k])
    IN  IF k > Len(tier_list)
        THEN ROk(trackers)
        ELSE IF addr.st = "Err"
        THEN BencodingError(addr.val)
        ELSE tier_loop(tier_list, k + 1, index, Append(trackers, <<as_u8(index), addr.val>>))

\* the outer loop of extract_trackers; index is the 0-based enumerate() index
RECURSIVE tiers_loop(_, _, _)
tiers_loop(tiers, index, trackers) ==
    LET tier_list == extract_list(tiers[index + 1])
        pushed == tier_loop(tier_list.val, 1, index, trackers)
    IN  IF index >= Len(tiers)
        THEN ROk(trackers)
        ELSE IF tier_list.st = "Err"
        THEN BencodingError(tier_list.val)
        ELSE IF pushed.st = "Err"
        THEN pushed
        ELSE tiers_loop(tiers, index + 1, pushed.val)

extract_trackers(b) ==
    LET inner == extract_key(b, "announce-list")
        tracker_addr == TrackerAddr_try_from(b)
        tiers == extract_list(inner.val)
    IN  IF inner.st = "Err"
        THEN IF tracker_addr.st = "Err"
             THEN BencodingError(tracker_addr.val)
             ELSE ROk(<< <<0, tracker_addr.val>> >>)
        ELSE IF tiers.st = "Err"
        THEN BencodingError(tiers.val)
        ELSE tiers_loop(tiers.val, 0, <<>>)

\* slice::chunks_exact(PIECE_HASH_SIZE), each chunk copied into a PieceHash
chunks_exact(bytes, size) ==
    [k \in 1..(Len(bytes) \div size) |-> SubSeq(bytes, size * (k - 1) + 1, size * k)]

\* extract_piece_hashes without the test of the length
extract_piece_hashes_unchecked(info) ==
    LET pieces == extract_key(info, "pieces")
        piece_bytes == extract_bytes(pieces.val)
    IN  IF pieces.st = "Err"
        THEN BencodingError(pieces.val)
        ELSE IF piece_bytes.st = "Err"
        THEN BencodingError(piece_bytes.val)
        ELSE ROk(chunks_exact(piece_bytes.val, PIECE_HASH_SIZE))

extract_piece_hashes(info) ==
    LET pieces == extract_key(info, "pieces")
        piece_bytes == extract_bytes(pieces.val)
        piece_bytes_len == Len(piece_bytes.val)
    IN  IF pieces.st = "Err"
        THEN BencodingError(pieces.val)
        ELSE IF piece_bytes.st = "Err"
        THEN BencodingError(piece_bytes.val)
        ELSE IF piece_bytes_len % PIECE_HASH_SIZE # 0
        THEN RErr(<<"BadHashLength", piece_bytes_len>>)
        ELSE ROk(chunks_exact(piece_bytes.val, PIECE_HASH_SIZE))

\* PathBuf::push on a Unix path: an absolute path replaces the buffer
PathBuf_push(name, path) ==
    IF starts_with(path, <<"/">>)
    THEN path
    ELSE IF Len(name) = 0 \/ name[Len(name)] = "/"
    THEN name \o path
    ELSE name \o <<"/">> \o path

FileInfo(name, length) == [name |-> name, length |-> length]

\* the loop of extract_files over the "files" list; k is 1-based
RECURSIVE files_loop(_, _, _, _)
files_loop(files, k, dir, file_infos) ==
    LET length_key == extract_key(files[k], "length")
        length == extract_int(length_key.val)
        path_key == extract_key(files[k], "path")
        path == extract_string(path_key.val)
    IN  IF k > Len(files)
        THEN ROk(file_infos)
        ELSE IF length_key.st = "Err"
        THEN BencodingError(length_key.val)
        ELSE IF length.st = "Err"
        THEN BencodingError(length.val)
        ELSE IF path_key.st = "Err"
        THEN BencodingError(path_key.val)
        ELSE IF path.st = "Err"
        THEN BencodingError(path.val)
        ELSE files_loop(files, k + 1, dir,
                        Append(file_infos,
                               FileInfo(PathBuf_push(dir, path.val), wrap_usize(length.val))))

extract_files(info) ==
    LET inner == extract_key(info, "files")
        name_key == extract_key(info, "name")
        name == extract_string(name_key.val)
        length_key == extract_key(info, "length")
        length == extract_int(length_key.val)
        files == extract_list(inner.val)
    IN  IF name_key.st = "Err"
        THEN BencodingError(name_key.val)
        ELSE IF name.st = "Err"
        THEN BencodingError(name.val)
        ELSE IF inner.st = "Err"
        THEN IF length_key.st = "Err"
             THEN BencodingError(length_key.val)
             ELSE IF length.st = "Err"
             THEN BencodingError(length.val)
             ELSE ROk(<<FileInfo(name.val, wrap_usize(length.val))>>)
        ELSE IF files.st = "Err"
        THEN BencodingError(files.val)
        ELSE files_loop(files.val, 1, name.val, <<>>)

\* Option<T>
Some(v) == [some |-> TRUE, v |-> v]

NoneOf(default) == [some |-> FALSE, v |-> default]

\* extract_key(..).ok().map(f).transpose(): None when the key cannot be read,
\* otherwise f's result with its value wrapped in Some
optional(key_result, mapped, default) ==
    IF key_result.st = "Err"
    THEN ROk(NoneOf(default))
    ELSE IF mapped.st = "Err"
    THEN BencodingError(mapped.val)
    ELSE ROk(Some(mapped.val))

creation_of(b) ==
    LET key == extract_key(b, "creation date")
    IN  optional(key, extract_system_time(key.val), 0)

comment_of(b) ==
    LET key == extract_key(b, "comment")
    IN  optional(key, extract_string(key.val), <<>>)

created_by_of(b) ==
    LET key == extract_key(b, "created by")
    IN  optional(key, extract_string(key.val), <<>>)

info_of(b) ==
    LET key == extract_key(b, "info")
    IN  IF key.st = "Err" THEN BencodingError(key.val) ELSE key

private_option_of(info) ==
    LET key == extract_key(info, "private")
    IN  optional(key, extract_int(key.val), 0)

piece_length_of(info) ==
    LET key == extract_key(info, "piece length")
        length == extract_int(key.val)
    IN  IF key.st = "Err"
        THEN BencodingError(key.val)
        ELSE IF length.st = "Err"
        THEN BencodingError(length.val)
        ELSE ROk(wrap_usize(length.val))

Torrent_try_from(b) ==
    LET trackers == extract_trackers(b)
        creation == creation_of(b)
        comment == comment_of(b)
        created_by == created_by_of(b)
        info == info_of(b)
        private_option == private_option_of(info.val)
        piece_length == piece_length_of(info.val)
        piece_hashes == extract_piece_hashes(info.val)
        files == extract_files(info.val)
    IN  IF trackers.st = "Err" THEN trackers
        ELSE IF creation.st = "Err" THEN creation
        ELSE IF comment.st = "Err" THEN comment
        ELSE IF created_by.st = "Err" THEN created_by
        ELSE IF info.st = "Err" THEN info
        ELSE IF private_option.st = "Err" THEN private_option
        ELSE IF piece_length.st = "Err" THEN piece_length
        ELSE IF piece_hashes.st = "Err" THEN piece_hashes
        ELSE IF files.st = "Err" THEN files
        ELSE ROk([trackers |-> trackers.val,
                  creation |-> creation.val,
                  comment |-> comment.val,
                  created_by |-> created_by.val,
                  private |-> private_option.val.some /\ private_option.val.v = 1,
                  piece_length |-> piece_length.val,
                  piece_hashes |-> piece_hashes.val,
                  files |-> files.val])

(* ------------------------- parts that do not run ---------------------- *)

\* the exit status of a process that has not exited
RUNNING == 0 - 1

\* neither the stepwise decoder nor the command-line process is running
Idle ==
    /\ lexer = None
    /\ stack = <<>>
    /\ ret = None
    /\ iterations = 0
    /\ command = None
    /\ stdout = <<>>
    /\ exit_status = RUNNING

(* --------------------------- decoder harness -------------------------- *)

Alphabet == {"i", "l", "d", "e", ":", "-", "0", "1", "2", "3", "6"}

Inputs == UNION {[1..n -> Alphabet] : n \in 0..MaxLen}

NotRun == [st |-> "NotRun", val |-> None]

Init ==
    /\ overflow_checks \in BOOLEAN
    /\ pc = "start"
    /\ input \in Inputs
    /\ parsed = NotRun
    /\ bencoding = None
    /\ torrent = NotRun
    /\ string = <<>>
    /\ tracker = NotRun
    /\ Idle

Parse ==
    /\ pc = "start"
    /\ parsed' = parse(input)
    /\ pc' = "done"
    /\ UNCHANGED <<overflow_checks, input, bencoding, torrent, string, tracker, step_vars, main_vars>>

Next == Parse

Spec == Init /\ [][Next]_vars

(* -------------------------- extractor harness -------------------------- *)

\* the most 20-byte hashes in a "pieces" string
MaxPieces == 2

\* the most tiers in an "announce-list"
MaxTiers == 5

\* marks a key left out of a dictionary
Absent == [tag |-> "Absent"]

\* the dictionary holding the pairs <<key, value>> whose value is not Absent
DictOf(pairs) ==
    LET present == {k \in 1..Len(pairs) : pairs[k][2].tag # "Absent"}
    IN  Bencoding_Dict([key \in {as_bytes(pairs[k][1]) : k \in present} |->
            pairs[CHOOSE k \in present : as_bytes(pairs[k][1]) = key][2]])

Text(s) == Bencoding_ByteString(s)

NotText == Bencoding_ByteString(<<"a", INVALID_UTF8>>)

\* n tiers of one tracker each; the tracker of tier k (1-based) is named by digit k
TiersOf(n) ==
    Bencoding_List([k \in 1..n |-> Bencoding_List(<<Text(<<Digits[k + 1]>>)>>)])

AnnounceLists ==
    {Absent,
     Bencoding_Int(1),
     Bencoding_List(<<Bencoding_Int(1)>>),
     Bencoding_List(<<Bencoding_List(<<Bencoding_Int(1)>>)>>),
     Bencoding_List(<<Bencoding_List(<<Text(UDP_SCHEME \o <<"a">>), Text(HTTP_SCHEME \o <<"b">>)>>),
                      Bencoding_List(<<Text(<<"w", "s">>)>>)>>)}
    \cup {TiersOf(n) : n \in {0, 1, MaxTiers}}

Announces == {Absent, Text(UDP_SCHEME \o <<"a">>)}

CreationDates == {Absent, Bencoding_Int(5), Bencoding_Int(0 - 1), Text(<<"5">>)}

Comments == {Absent, NotText}

CreatedBys == {Absent, Text(<<"c">>)}

Privates == {Absent, Bencoding_Int(1), Text(<<"1">>)}

PieceLengths == {Absent, Bencoding_Int(0), Bencoding_Int(4), Bencoding_Int(0 - 1)}

\* n bytes whose value depends on their position
PatternBytes(n) == [k \in 1..n |-> Digits[(k % 7) + 1]]

PiecesLens == {0, PIECE_HASH_SIZE + 5} \cup {k * PIECE_HASH_SIZE : k \in 1..MaxPieces}

Pieces == {Absent, Bencoding_Int(1)} \cup {Text(PatternBytes(n)) : n \in PiecesLens}

Names == {Text(<<"n">>)}

Lengths == {Absent, Bencoding_Int(3)}

Files ==
    {Absent,
     Bencoding_List(<<DictOf(<< <<"length", Bencoding_Int(1)>>, <<"path", Text(<<"p">>)>> >>),
                      DictOf(<< <<"length", Bencoding_Int(2)>>, <<"path", Text(<<"/", "q">>)>> >>)>>)}

Infos ==
    {Absent, Bencoding_Int(1)}
    \cup {DictOf(<< <<"private", pr>>, <<"piece length", pl>>, <<"pieces", pi>>,
                    <<"name", na>>, <<"length", le>>, <<"files", fi>> >>) :
            pr \in Privates, pl \in PieceLengths, pi \in Pieces,
            na \in Names, le \in Lengths, fi \in Files}

Bencodings ==
    {Bencoding_Int(1), Text(UDP_SCHEME \o <<"a">>)}
    \cup {DictOf(<< <<"announce-list", al>>, <<"announce", an>>, <<"creation date", cd>>,
                    <<"comment", co>>, <<"created by", cb>>, <<"info", info>> >>) :
            al \in AnnounceLists, an \in Announces, cd \in CreationDates,
            co \in Comments, cb \in CreatedBys, info \in Infos}

InitTorrent ==
    /\ overflow_checks \in BOOLEAN
    /\ pc = "start"
    /\ input = <<>>
    /\ parsed = NotRun
    /\ bencoding \in Bencodings
    /\ torrent = NotRun
    /\ string = <<>>
    /\ tracker = NotRun
    /\ Idle

Extract ==
    /\ pc = "start"
    /\ torrent' = Torrent_try_from(bencoding)
    /\ pc' = "done"
    /\ UNCHANGED <<overflow_checks, input, parsed, bencoding, string, tracker, step_vars, main_vars>>

NextTorrent == Extract

SpecTorrent == InitTorrent /\ [][NextTorrent]_vars

(* --------------------------- tracker harness --------------------------- *)

\* the most fragments a tracker text is put together from
MaxFragments == 3

Fragments ==
    {UDP_SCHEME, HTTP_SCHEME, HTTPS_SCHEME, <<"x">>, <<"/">>,
     <<"u", "d", "p", ":", "/">>, <<"h", "t", "t", "p">>}

RECURSIVE Concat(_)
Concat(seqs) == IF Len(seqs) = 0 THEN <<>> ELSE Head(seqs) \o Concat(Tail(seqs))

Strings == {Concat(fs) : fs \in UNION {[1..n -> Fragments] : n \in 0..MaxFragments}}

InitTracker ==
    /\ overflow_checks \in BOOLEAN
    /\ pc = "start"
    /\ input = <<>>
    /\ parsed = NotRun
    /\ bencoding = None
    /\ torrent = NotRun
    /\ string \in Strings
    /\ tracker = NotRun
    /\ Idle

Classify ==
    /\ pc = "start"
    /\ tracker' = TrackerAddr_from(string)
    /\ pc' = "done"
    /\ UNCHANGED <<overflow_checks, input, parsed, bencoding, torrent, string, step_vars, main_vars>>

NextTracker == Classify

SpecTracker == InitTracker /\ [][NextTracker]_vars

(* ------------------------- decoder properties ------------------------- *)

\* the lexer states at which the list loop starting at lx asks root for an element
RECURSIVE list_attempts(_)
list_attempts(lx) ==
    {lx} \cup (IF root(lx).st = "Ok" THEN list_attempts(root(lx).lx) ELSE {})

\* the lexer states at which the dict loop starting at lx asks bytestring for a key
RECURSIVE dict_attempts(_)
dict_attempts(lx) ==
    LET key == bytestring(lx)
    IN  {lx} \cup (IF key.st = "Ok" /\ root(key.lx).st = "Ok"
                   THEN dict_attempts(root(key.lx).lx)
                   ELSE {})

IsDigitRun(ds) == Len(ds) > 0 /\ \A k \in 1..Len(ds) : as_digit(ds[k]).some

\* the number a digit run denotes, as a mathematical integer
RECURSIVE decimal_value(_)
decimal_value(ds) ==
    IF Len(ds) = 0
    THEN 0
    ELSE 10 * decimal_value(SubSeq(ds, 1, Len(ds) - 1)) + as_digit(ds[Len(ds)]).v

Tail2(s) == SubSeq(s, 3, Len(s))

Body(s) == SubSeq(s, 2, Len(s) - 1)

Body2(s) == SubSeq(s, 3, Len(s) - 1)

\* C1: when the list loop stands at a byte other than 'e' and the element
\* starting there fails to parse, parse does not return Ok.
C1_FailedListElementIsFatal ==
    (pc = "done" /\ Len(input) > 0 /\ input[1] = "l") =>
        \A lx \in list_attempts(Lexer_next(Lexer_new(input))) :
            (Lexer_peek(lx) # "e" /\ root(lx).st = "Err") => parsed.st # "Ok"

\* C2: when the dict loop stands at a byte other than 'e' and the key starting
\* there, or the value after it, fails to parse, parse does not return Ok.
C2_FailedDictKeyIsFatal ==
    (pc = "done" /\ Len(input) > 0 /\ input[1] = "d") =>
        \A lx \in dict_attempts(Lexer_next(Lexer_new(input))) :
            LET key == bytestring(lx)
            IN  (/\ Lexer_peek(lx) # "e"
                 /\ \/ key.st = "Err"
                    \/ key.st = "Ok" /\ root(key.lx).st = "Err")
                => parsed.st # "Ok"

\* C3: if a prefix b of the input parses to Ok(v), the whole input b ++ t
\* parses to Ok(v) as well.
C3_TrailingBytesNotInspected ==
    pc = "done" =>
        \A n \in 0..Len(input) :
            LET b == parse(SubSeq(input, 1, n))
            IN  b.st = "Ok" => (parsed.st = "Ok" /\ parsed.val = b.val)

\* C4: 'i' digits 'e' with the digits denoting a representable n >= 0 parses to
\* Int(n); 'i-' digits 'e' with -n representable and n > 0 parses to Int(-n).
C4_IntegersParseExactly ==
    pc = "done" =>
        /\ (/\ Len(input) >= 3
            /\ input[1] = "i"
            /\ input[Len(input)] = "e"
            /\ IsDigitRun(Body(input))
            /\ decimal_value(Body(input)) <= I64_MAX)
           => (/\ parsed.st = "Ok"
               /\ parsed.val.tag = "Int"
               /\ parsed.val.int = decimal_value(Body(input)))
        /\ (/\ Len(input) >= 4
            /\ input[1] = "i"
            /\ input[2] = "-"
            /\ input[Len(input)] = "e"
            /\ IsDigitRun(Body2(input))
            /\ decimal_value(Body2(input)) > 0
            /\ 0 - decimal_value(Body2(input)) >= I64_MIN)
           => (/\ parsed.st = "Ok"
               /\ parsed.val.tag = "Int"
               /\ parsed.val.int = 0 - decimal_value(Body2(input)))

\* the digit run at the start of s
RECURSIVE leading_digits(_)
leading_digits(s) ==
    IF Len(s) > 0 /\ as_digit(s[1]).some
    THEN <<s[1]>> \o leading_digits(Tail(s))
    ELSE <<>>

\* C5: parse ends in Ok or in an error, never in a panic, and a digit run
\* beyond the signed range (integer or byte-string length) gives an error.
C5_NoPanicNoWrap ==
    pc = "done" =>
        /\ parsed.st \in {"Ok", "Err"}
        /\ (/\ Len(input) > 0
            /\ input[1] = "i"
            /\ decimal_value(leading_digits(Tail(input))) > I64_MAX)
           => parsed.st = "Err"
        /\ decimal_value(leading_digits(input)) > I64_MAX => parsed.st = "Err"

\* C6: digits of value k, then ':', then at least k bytes: ByteString of exactly
\* the next k bytes; fewer than k bytes: an error.
C6_ByteStringTakesExactlyK ==
    LET ds == leading_digits(input)
        k == decimal_value(ds)
        rest == SubSeq(input, Len(ds) + 2, Len(input))
    IN  (/\ pc = "done"
         /\ Len(ds) > 0
         /\ Len(input) > Len(ds)
         /\ input[Len(ds) + 1] = ":")
        => IF Len(rest) >= k
           THEN /\ parsed.st = "Ok"
                /\ parsed.val.tag = "ByteString"
                /\ parsed.val.bytes = SubSeq(rest, 1, k)
           ELSE parsed.st = "Err"

(* ------------------------ extractor properties ------------------------- *)

HasKey(b, key) == b.tag = "Dict" /\ as_bytes(key) \in DOMAIN b.map

ValueAt(b, key) == b.map[as_bytes(key)]

\* every field that Torrent::try_from reads after the trackers and before
\* "pieces" is read without an error
ValidBeforePieces(b) ==
    /\ creation_of(b).st = "Ok"
    /\ comment_of(b).st = "Ok"
    /\ created_by_of(b).st = "Ok"
    /\ info_of(b).st = "Ok"
    /\ private_option_of(info_of(b).val).st = "Ok"
    /\ piece_length_of(info_of(b).val).st = "Ok"

\* C7: without "announce-list" the single tracker is the classified "announce"
\* text at priority 0, a missing "announce" gives MissingKey, and a torrent
\* that is valid otherwise is extracted.
C7_AnnounceFallback ==
    (pc = "done" /\ bencoding.tag = "Dict" /\ ~HasKey(bencoding, "announce-list")) =>
        IF ~HasKey(bencoding, "announce")
        THEN /\ torrent.st = "Err"
             /\ torrent.val[1] = "Bencoding"
             /\ torrent.val[2][1] = "MissingKey"
        ELSE (/\ ValueAt(bencoding, "announce").tag = "ByteString"
              /\ from_utf8(ValueAt(bencoding, "announce").bytes).st = "Ok"
              /\ ValidBeforePieces(bencoding)
              /\ extract_piece_hashes(info_of(bencoding).val).st = "Ok"
              /\ extract_files(info_of(bencoding).val).st = "Ok")
             => /\ torrent.st = "Ok"
                /\ torrent.val.trackers =
                       << <<0, TrackerAddr_from(ValueAt(bencoding, "announce").bytes)>> >>

\* C8: with every earlier field valid and "pieces" a byte-string of length L,
\* the result is BadHashLength(L) when 20 does not divide L; otherwise it is
\* not BadHashLength, and a returned torrent has L / 20 piece hashes, the k-th
\* being bytes [20k, 20k + 20) of "pieces".
C8_PieceHashes ==
    (/\ pc = "done"
     /\ extract_trackers(bencoding).st = "Ok"
     /\ ValidBeforePieces(bencoding)
     /\ HasKey(ValueAt(bencoding, "info"), "pieces")
     /\ ValueAt(ValueAt(bencoding, "info"), "pieces").tag = "ByteString")
    => LET bytes == ValueAt(ValueAt(bencoding, "info"), "pieces").bytes
           L == Len(bytes)
       IN  IF L % 20 # 0
           THEN /\ torrent.st = "Err"
                /\ torrent.val[1] = "BadHashLength"
                /\ torrent.val[2] = L
           ELSE /\ torrent.st = "Err" => torrent.val[1] # "BadHashLength"
                /\ torrent.st = "Ok" =>
                     /\ Len(torrent.val.piece_hashes) * 20 = L
                     /\ \A k \in 0..(Len(torrent.val.piece_hashes) - 1) :
                            /\ Len(torrent.val.piece_hashes[k + 1]) = 20
                            /\ \A j \in 1..20 :
                                   torrent.val.piece_hashes[k + 1][j] = bytes[20 * k + j]

\* a torrent with two piece hashes was extracted
C8_Witness ==
    /\ pc = "done"
    /\ torrent.st = "Ok"
    /\ Len(torrent.val.piece_hashes) = 2

\* C9: a returned torrent has a positive piece_length, and "piece length" of
\* zero or below is never extracted successfully.
C9_PieceLengthPositive ==
    (pc = "done" /\ torrent.st = "Ok") =>
        /\ torrent.val.piece_length > 0
        /\ ValueAt(ValueAt(bencoding, "info"), "piece length").int > 0

(* ------------------------- tracker properties -------------------------- *)

\* the indices at which "udp://" occurs in s
UdpOccurrences(s) == {k \in 1..(Len(s) - 5) : SubSeq(s, k, k + 5) = UDP_SCHEME}

\* C10: a text containing "udp://" is UDP of everything after the first
\* occurrence; otherwise a text starting with "http://" or "https://" is HTTP
\* of the whole text; otherwise it is Unknown of the whole text.
C10_Classification ==
    pc = "done" =>
        IF UdpOccurrences(string) # {}
        THEN \E k \in UdpOccurrences(string) :
                /\ \A j \in UdpOccurrences(string) : k <= j
                /\ tracker = [tag |-> "UDP", v |-> SubSeq(string, k + 6, Len(string))]
        ELSE IF \/ Len(string) >= 7 /\ SubSeq(string, 1, 7) = HTTP_SCHEME
                \/ Len(string) >= 8 /\ SubSeq(string, 1, 8) = HTTPS_SCHEME
        THEN tracker = [tag |-> "HTTP", v |-> string]
        ELSE tracker = [tag |-> "Unknown", v |-> string]

\* a text that starts with "http://" and holds "udp://" twice was classified UDP
C10_Witness ==
    /\ pc = "done"
    /\ Len(string) >= 7
    /\ SubSeq(string, 1, 7) = HTTP_SCHEME
    /\ Cardinality(UdpOccurrences(string)) = 2
    /\ tracker.tag = "UDP"

(* --------------------- tracker priority and creation ------------------- *)

IsText(b) == b.tag = "ByteString" /\ from_utf8(b.bytes).st = "Ok"

\* "announce-list" is a list of tiers, each a list of texts
WellFormedAnnounceList(b) ==
    /\ HasKey(b, "announce-list")
    /\ ValueAt(b, "announce-list").tag = "List"
    /\ \A i \in 1..Len(ValueAt(b, "announce-list").items) :
           LET tier == ValueAt(b, "announce-list").items[i]
           IN  /\ tier.tag = "List"
               /\ \A j \in 1..Len(tier.items) : IsText(tier.items[j])

\* the number of trackers in the first n tiers
RECURSIVE TrackersBefore(_, _)
TrackersBefore(tiers, n) ==
    IF n = 0 THEN 0 ELSE TrackersBefore(tiers, n - 1) + Len(tiers[n].items)

\* C11: with a well-formed "announce-list" the trackers of the tier at 0-based
\* index i have priority exactly i, and they are emitted in tier order and in
\* list order within a tier.
C11_PriorityIsTierIndex ==
    (pc = "done" /\ WellFormedAnnounceList(bencoding) /\ torrent.st = "Ok") =>
        LET tiers == ValueAt(bencoding, "announce-list").items
        IN  /\ Len(torrent.val.trackers) = TrackersBefore(tiers, Len(tiers))
            /\ \A i \in 0..(Len(tiers) - 1) :
                   \A j \in 1..Len(tiers[i + 1].items) :
                       torrent.val.trackers[TrackersBefore(tiers, i) + j] =
                           <<i, TrackerAddr_from(tiers[i + 1].items[j].bytes)>>

\* C12: "creation date" absent gives no creation time; Int(s) gives the epoch
\* plus s seconds whenever that is a representable time, negative s included,
\* and ExceedsSystemTime(s) only otherwise; a non-integer gives ExpectedInt.
C12_CreationDate ==
    (pc = "done" /\ bencoding.tag = "Dict" /\ extract_trackers(bencoding).st = "Ok") =>
        IF ~HasKey(bencoding, "creation date")
        THEN torrent.st = "Ok" => ~torrent.val.creation.some
        ELSE LET date == ValueAt(bencoding, "creation date")
             IN  IF date.tag # "Int"
                 THEN /\ torrent.st = "Err"
                      /\ torrent.val[1] = "Bencoding"
                      /\ torrent.val[2][1] = "ExpectedInt"
                 ELSE IF I64_MIN <= date.int /\ date.int <= I64_MAX
                 THEN /\ torrent.st = "Ok" => torrent.val.creation = Some(date.int)
                      /\ torrent.st = "Err" =>
                             ~(/\ torrent.val[1] = "Bencoding"
                               /\ torrent.val[2][1] = "ExceedsSystemTime")
                 ELSE /\ torrent.st = "Err"
                      /\ torrent.val[1] = "Bencoding"
                      /\ torrent.val[2] = <<"ExceedsSystemTime", date.int>>

(* ------------------------- command line (main.rs) ---------------------- *)

\* Bencoding::decode, the decoder as the command line calls it
Bencoding_decode(bytes) == parse(bytes)

\* longest of the short files handed to the command line
MaxFileLen == 2

\* the bytes of a dictionary whose "info" lacks every required key
BadTorrentFile ==
    <<"d", "1", "3", ":", "a", "n", "n", "o", "u", "n", "c", "e", "-", "l", "i", "s",
      "t", "l", "e", "4", ":", "i", "n", "f", "o", "d", "e", "e">>

\* a file is never longer than usize::MAX bytes; at the scaled-down width no
\* complete torrent fits, so every file that decodes fails in the extraction
Files_on_disk ==
    {f \in {BadTorrentFile} \cup UNION {[1..n -> Alphabet] : n \in 0..MaxFileLen} :
        Len(f) <= USIZE_MAX}

\* Command::Parse { file, bencoding }; readable tells whether fs::read succeeds
Commands == [readable : BOOLEAN, bencoding : BOOLEAN]

InitMain ==
    /\ overflow_checks \in BOOLEAN
    /\ pc = "start"
    /\ input \in Files_on_disk
    /\ parsed = NotRun
    /\ bencoding = None
    /\ torrent = NotRun
    /\ string = <<>>
    /\ tracker = NotRun
    /\ command \in Commands
    /\ stdout = <<>>
    /\ exit_status = RUNNING
    /\ lexer = None
    /\ stack = <<>>
    /\ ret = None
    /\ iterations = 0

\* let bytes = fs::read(file)?;
MainRead ==
    /\ pc = "start"
    /\ IF command.readable
       THEN pc' = "read" /\ exit_status' = exit_status
       ELSE pc' = "exit" /\ exit_status' = 1
    /\ UNCHANGED <<overflow_checks, input, parsed, bencoding, torrent, string, tracker,
                   step_vars, command, stdout>>

\* match Bencoding::decode(&bytes), up to the call of Torrent::try_from
MainDecode ==
    /\ pc = "read"
    /\ parsed' = Bencoding_decode(input)
    /\ IF parsed'.st = "Panic"
       THEN /\ pc' = "exit"
            /\ exit_status' = 101
            /\ UNCHANGED <<bencoding, stdout>>
       ELSE IF parsed'.st = "Err"
       THEN /\ pc' = "exit"
            /\ exit_status' = 0
            /\ stdout' = Append(stdout, "Error decoding file")
            /\ UNCHANGED bencoding
       ELSE IF command.bencoding
       THEN /\ pc' = "exit"
            /\ exit_status' = 0
            /\ stdout' = Append(stdout, "bencoded_data")
            /\ UNCHANGED bencoding
       ELSE /\ pc' = "decoded"
            /\ bencoding' = parsed'.val
            /\ UNCHANGED <<exit_status, stdout>>
    /\ UNCHANGED <<overflow_checks, input, torrent, string, tracker, step_vars, command>>

\* match Torrent::try_from(&bencoded_data), then Ok(())
MainExtract ==
    /\ pc = "decoded"
    /\ torrent' = Torrent_try_from(bencoding)
    /\ stdout' = Append(stdout, IF torrent'.st = "Ok"
                                THEN "torrent"
                                ELSE "Error reading torrent data")
    /\ exit_status' = 0
    /\ pc' = "exit"
    /\ UNCHANGED <<overflow_checks, input, parsed, bencoding, string, tracker,
                   step_vars, command>>

NextMain == MainRead \/ MainDecode \/ MainExtract

SpecMain == InitMain /\ [][NextMain]_vars

\* C13: the process ends with a non-zero status when the file cannot be read,
\* when decoding fails and when extraction fails, and with status zero only
\* when the value or the record was printed.
C13_NonZeroExitOnFailure ==
    pc = "exit" =>
        /\ ~command.readable => exit_status # 0
        /\ parsed.st \in {"Err", "Panic"} => exit_status # 0
        /\ torrent.st = "Err" => exit_status # 0
        /\ exit_status = 0 => stdout \in {<<"bencoded_data">>, <<"torrent">>}

(* ----------------- the decoder step by step (bencoding.rs) ------------- *)
(* The same functions as above, one lexer operation at a time.  A frame of *)
(* the stack is one call: fn names the function, at the place it has       *)
(* reached; ret holds the result of the call that returned last.  The      *)
(* frame of a loop records in from the position at which the round began,  *)
(* and iterations counts the rounds of list and dict that went on.         *)

\* longest input of the stepwise decoder
MaxStepLen == 4

\* the stack never grows beyond this; no call of the decoder reaches it
StackCap == 3 * MaxStepLen + 6

StepAlphabet == {"i", "l", "d", "e", ":", "-", "0", "3"}

\* longer inputs: a dictionary with one entry, a dictionary whose second key
\* fails, a list in a list, a negative integer in a list
LongInputs ==
    { <<"d", "0", ":", "0", ":", "e">>,
      <<"d", "0", ":", "l", "e", "3", ":", "e">>,
      <<"l", "l", "0", ":", "e", "e">>,
      <<"l", "i", "-", "3", "e", "e">> }

StepInputs == LongInputs \cup UNION {[1..n -> StepAlphabet] : n \in 0..MaxStepLen}

RPanic(msg) == [st |-> "Panic", val |-> msg]

\* Ok of int_digits, an i64
ROkInt(n) == [st |-> "Ok", i64 |-> n]

\* Ok of bytestring, a slice of the input
ROkSlice(bytes) == [st |-> "Ok", slice |-> bytes]

Top == stack[Len(stack)]

At(fn, at) == pc = "running" /\ stack # <<>> /\ Top.fn = fn /\ Top.at = at

\* the frame on top goes on as frame
Continues(frame) ==
    /\ stack' = [stack EXCEPT ![Len(stack)] = frame]
    /\ ret' = ret

\* the frame on top goes on as frame and calls callee
Calls(frame, callee) ==
    /\ Len(stack) < StackCap
    /\ stack' = Append([stack EXCEPT ![Len(stack)] = frame], callee)
    /\ ret' = ret

\* the call on top returns result to its caller
Returns(result) ==
    /\ stack' = SubSeq(stack, 1, Len(stack) - 1)
    /\ ret' = result

\* a panic unwinds every call
Panics(msg) ==
    /\ stack' = <<>>
    /\ ret' = RPanic(msg)

StepFixed ==
    UNCHANGED <<overflow_checks, pc, input, parsed, bencoding, torrent, string, tracker,
                main_vars>>

InitStep ==
    /\ overflow_checks \in BOOLEAN
    /\ pc = "running"
    /\ input \in StepInputs
    /\ parsed = NotRun
    /\ bencoding = None
    /\ torrent = NotRun
    /\ string = <<>>
    /\ tracker = NotRun
    /\ lexer = Lexer_new(input)
    /\ stack = <<[fn |-> "root", at |-> "match"]>>
    /\ ret = NotRun
    /\ iterations = 0
    /\ command = None
    /\ stdout = <<>>
    /\ exit_status = RUNNING

\* root: match lexer.peek()
RootMatch ==
    /\ At("root", "match")
    /\ LET c == Lexer_peek(lexer)
           returning == [fn |-> "root", at |-> "return", boxed |-> FALSE]
       IN  IF c = None
           THEN /\ Returns(RErr("Tried to parse bencoded data from empty input"))
                /\ lexer' = lexer
           ELSE IF c = "i"
           THEN /\ Calls(returning, [fn |-> "int", at |-> "sign", negate |-> 1])
                /\ lexer' = Lexer_next(lexer)
           ELSE IF c = "l"
           THEN /\ Calls(returning, [fn |-> "list", at |-> "loop", inner |-> <<>>, from |-> 0])
                /\ lexer' = Lexer_next(lexer)
           ELSE IF c = "d"
           THEN /\ Calls(returning, [fn |-> "dict", at |-> "loop", inner |-> HashMap_new, from |-> 0])
                /\ lexer' = Lexer_next(lexer)
           ELSE IF as_digit(c).some
           THEN /\ Calls([returning EXCEPT !.boxed = TRUE],
                         [fn |-> "bytestring", at |-> "start", count |-> 0])
                /\ lexer' = lexer
           ELSE /\ Returns(RErr("Unknown type of element"))
                /\ lexer' = lexer
    /\ UNCHANGED iterations
    /\ StepFixed

\* root: the arm's call has returned; a byte-string is wrapped in ByteString
RootReturn ==
    /\ At("root", "return")
    /\ Returns(IF Top.boxed /\ ret.st = "Ok" THEN ROk(Bencoding_ByteString(ret.slice)) ELSE ret)
    /\ UNCHANGED <<lexer, iterations>>
    /\ StepFixed

\* int: the optional '-', then the call of int_digits
IntSign ==
    /\ At("int", "sign")
    /\ LET minus == Lexer_peek(lexer) = "-"
       IN  /\ Calls([fn |-> "int", at |-> "digits", negate |-> IF minus THEN 0 - 1 ELSE 1],
                    [fn |-> "int_digits", at |-> "head", acc |-> 0])
           /\ lexer' = IF minus THEN Lexer_next(lexer) ELSE lexer
    /\ UNCHANGED iterations
    /\ StepFixed

\* int: int_digits has returned; expect 'e' and negate
IntExpect ==
    /\ At("int", "digits")
    /\ LET e == Lexer_expect(lexer, "e")
           product == Top.negate * ret.i64
       IN  IF ret.st # "Ok"
           THEN Returns(ret) /\ lexer' = lexer
           ELSE /\ lexer' = e.lx
                /\ IF e.st # "Ok"
                   THEN Returns(RErr(e.val))
                   ELSE IF overflow_checks /\ i64_overflows(product)
                   THEN Panics("attempt to multiply with overflow")
                   ELSE Returns(ROk(Bencoding_Int(wrap_i64(product))))
    /\ UNCHANGED iterations
    /\ StepFixed

\* int_digits: the first digit
IntDigitsHead ==
    /\ At("int_digits", "head")
    /\ LET head == Lexer_peek(lexer)
       IN  IF head = None
           THEN /\ Returns(RErr("Tried to parse integer from empty input"))
                /\ lexer' = lexer
           ELSE IF ~as_digit(head).some
           THEN /\ Returns(RErr("Tried to parse integer without any valid digits"))
                /\ lexer' = lexer
           ELSE /\ Continues([fn |-> "int_digits", at |-> "loop", acc |-> as_digit(head).v])
                /\ lexer' = Lexer_next(lexer)
    /\ UNCHANGED iterations
    /\ StepFixed

\* int_digits: one round of the while let loop
IntDigitsLoop ==
    /\ At("int_digits", "loop")
    /\ LET chr == Lexer_peek(lexer)
           digit == as_digit(chr)
           prod == 10 * Top.acc
           sum == wrap_i64(prod) + digit.v
       IN  IF chr = None \/ ~digit.some
           THEN Returns(ROkInt(Top.acc)) /\ lexer' = lexer
           ELSE /\ lexer' = Lexer_next(lexer)
                /\ IF overflow_checks /\ (i64_overflows(prod) \/ i64_overflows(sum))
                   THEN Panics("attempt to multiply or add with overflow")
                   ELSE Continues([Top EXCEPT !.acc = wrap_i64(sum)])
    /\ UNCHANGED iterations
    /\ StepFixed

\* bytestring: the call of int_digits
ByteStringCount ==
    /\ At("bytestring", "start")
    /\ Calls([Top EXCEPT !.at = "count"], [fn |-> "int_digits", at |-> "head", acc |-> 0])
    /\ UNCHANGED <<lexer, iterations>>
    /\ StepFixed

\* bytestring: int_digits has returned; the cast to usize and expect ':'
ByteStringColon ==
    /\ At("bytestring", "count")
    /\ LET colon == Lexer_expect(lexer, ":")
       IN  IF ret.st # "Ok"
           THEN Returns(ret) /\ lexer' = lexer
           ELSE /\ lexer' = colon.lx
                /\ IF colon.st # "Ok"
                   THEN Returns(RErr(colon.val))
                   ELSE Continues([Top EXCEPT !.at = "take", !.count = wrap_usize(ret.i64)])
    /\ UNCHANGED iterations
    /\ StepFixed

\* bytestring: lexer.take(count)
ByteStringTake ==
    /\ At("bytestring", "take")
    /\ LET slice == Lexer_take(lexer, Top.count)
       IN  /\ lexer' = slice.lx
           /\ IF slice.st = "Panic"
              THEN Panics(slice.val)
              ELSE IF slice.st = "Err"
              THEN Returns(RErr("Unable to take bytes from input"))
              ELSE Returns(ROkSlice(slice.val))
    /\ UNCHANGED iterations
    /\ StepFixed

\* list: the loop calls root
ListLoop ==
    /\ At("list", "loop")
    /\ Calls([Top EXCEPT !.at = "item", !.from = lexer.pos], [fn |-> "root", at |-> "match"])
    /\ UNCHANGED <<lexer, iterations>>
    /\ StepFixed

\* list: root has returned; Ok goes on with the loop, anything else leaves it
\* for expect 'e'
ListItem ==
    /\ At("list", "item")
    /\ LET e == Lexer_expect(lexer, "e")
       IN  IF ret.st = "Ok"
           THEN /\ Continues([Top EXCEPT !.at = "loop", !.inner = Append(@, ret.val)])
                /\ iterations' = iterations + 1
                /\ lexer' = lexer
           ELSE /\ lexer' = e.lx
                /\ iterations' = iterations
                /\ IF e.st # "Ok"
                   THEN Returns(RErr(e.val))
                   ELSE Returns(ROk(Bencoding_List(Top.inner)))
    /\ StepFixed

\* dict: the loop calls bytestring for the key
DictLoop ==
    /\ At("dict", "loop")
    /\ Calls([Top EXCEPT !.at = "key", !.from = lexer.pos],
             [fn |-> "bytestring", at |-> "start", count |-> 0])
    /\ UNCHANGED <<lexer, iterations>>
    /\ StepFixed

\* dict: bytestring has returned; Ok calls root for the value, anything else
\* leaves the loop for expect 'e'
DictKey ==
    /\ At("dict", "key")
    /\ LET e == Lexer_expect(lexer, "e")
       IN  IF ret.st = "Ok"
           THEN /\ Calls([fn |-> "dict", at |-> "item", inner |-> Top.inner,
                          from |-> Top.from, key |-> ret.slice],
                         [fn |-> "root", at |-> "match"])
                /\ lexer' = lexer
           ELSE /\ lexer' = e.lx
                /\ IF e.st # "Ok"
                   THEN Returns(RErr(e.val))
                   ELSE Returns(ROk(Bencoding_Dict(Top.inner)))
    /\ UNCHANGED iterations
    /\ StepFixed

\* dict: root has returned the value; an error is passed on, Ok is inserted
\* and goes on with the loop
DictItem ==
    /\ At("dict", "item")
    /\ IF ret.st # "Ok"
       THEN Returns(ret) /\ iterations' = iterations
       ELSE /\ Continues([fn |-> "dict", at |-> "loop", from |-> Top.from,
                          inner |-> HashMap_insert(Top.inner, Top.key, ret.val)])
            /\ iterations' = iterations + 1
    /\ UNCHANGED lexer
    /\ StepFixed

\* parse: the outermost root has returned, or a panic has unwound the stack
ParseReturn ==
    /\ pc = "running"
    /\ stack = <<>>
    /\ parsed' = ret
    /\ pc' = "done"
    /\ UNCHANGED <<overflow_checks, input, bencoding, torrent, string, tracker,
                   step_vars, main_vars>>

NextStep ==
    \/ RootMatch \/ RootReturn
    \/ IntSign \/ IntExpect
    \/ IntDigitsHead \/ IntDigitsLoop
    \/ ByteStringCount \/ ByteStringColon \/ ByteStringTake
    \/ ListLoop \/ ListItem
    \/ DictLoop \/ DictKey \/ DictItem
    \/ ParseReturn

SpecStep == InitStep /\ [][NextStep]_vars

\* the decoder runs on: a sequential program always takes its next step
SpecStepFair == SpecStep /\ WF_vars(NextStep)

(* --------------------------- lexer position ---------------------------- *)

\* C14: while parse runs, 0 <= pos <= len(input) and pos never decreases; pos
\* moves only when there was a byte at the old position, and a step that
\* ends in an error (a failed take or expect among them) leaves pos where it
\* was, so a failed sub-parse keeps the bytes it consumed.
C14_LexerPosition ==
    /\ [](0 <= lexer.pos /\ lexer.pos <= Len(input) /\ lexer.input = input)
    /\ [][/\ lexer'.pos >= lexer.pos
          /\ lexer'.pos > lexer.pos => Lexer_peek(lexer) # None
          /\ ret'.st = "Err" => lexer'.pos = lexer.pos]_vars

\* a parse has failed after consuming bytes, and the bytes stay consumed
C14_Witness ==
    /\ pc = "done"
    /\ parsed.st = "Err"
    /\ lexer.pos > 1
    /\ lexer.pos < Len(input)

(* ----------------------------- termination ----------------------------- *)

\* the calls of root inside another call of root
RecursionDepth ==
    LET roots == Cardinality({k \in 1..Len(stack) : stack[k].fn = "root"})
    IN  IF roots = 0 THEN 0 ELSE roots - 1

\* C15: parse ends on every input; a round of the list loop or of the dict
\* loop that goes on has consumed at least one byte, root consumes the lead
\* byte before it calls int, list or dict, and so the number of rounds and
\* the depth of the recursion never exceed the bytes consumed, which never
\* exceed the length of the input.
C15_Terminates ==
    /\ <>(pc = "done")
    /\ [](/\ iterations <= lexer.pos
          /\ RecursionDepth <= lexer.pos
          /\ lexer.pos <= Len(input))
    /\ [][/\ iterations' > iterations => lexer.pos > Top.from
          /\ (/\ Len(stack') > Len(stack)
              /\ Top.fn = "root"
              /\ stack'[Len(stack')].fn \in {"int", "list", "dict"})
             => lexer'.pos = lexer.pos + 1]_vars

\* a parse has ended well after two rounds of a loop
C15_Witness ==
    /\ pc = "done"
    /\ parsed.st = "Ok"
    /\ iterations >= 2

====
